---- MODULE Spec2Model ----
(***************************************************************************)
(* Model of the mp3-uploader worker (src/src/index.ts): the audio routes   *)
(* POST /audio, GET /audio/:id, GET /audio/:id/meta, PUT /audio/:id and    *)
(* DELETE /audio/:id over the four bindings AUDIO_FILES, AUDIO_KV,         *)
(* COVER_FILES and PROJECT_KV.                                             *)
(*                                                                         *)
(* A handler is cut at the awaits that reach a store: each action is one   *)
(* store operation together with the local computation around it.          *)
(* Timestamps (createdAt, updatedAt) and the tag fields album, year, genre *)
(* and duration are copied through by the code and are left out.           *)
(***************************************************************************)
EXTENDS Integers, Sequences, FiniteSets, TLC

\* ------------------------------------------------------------------ bounds
NumProcs == 2
MaxIds == 2
MaxNum == 2

Procs == 1..NumProcs
Ids == 1..MaxIds
ProjIds == 1..MaxIds

\* JavaScript's undefined / null
None == "undefined"

\* ------------------------------------------------------------------ inputs
Multipart == "multipart/form-data"

\* The bytes of a file: its embedded tags and its length. One file has a
\* cover picture, one has no tags, one has tags the parser rejects.
CoverBytes == [tags |-> "cover", len |-> 2]
PlainBytes == [tags |-> "plain", len |-> 1]
BadBytes == [tags |-> "bad", len |-> 3]
NoBytes == [tags |-> None, len |-> 0]

\* The Files of the form data.
Files ==
  {[name |-> "a.mp3", type |-> "audio/mpeg", bytes |-> CoverBytes],
   [name |-> "b.mp3", type |-> "audio/mp3", bytes |-> PlainBytes],
   [name |-> "c.mp3", type |-> "audio/mpeg", bytes |-> BadBytes],
   [name |-> "d.txt", type |-> "text/plain", bytes |-> PlainBytes]}

\* formData.get(...) yields a File, a string or null.
StringValue == [name |-> None, type |-> "string", bytes |-> NoBytes]
NullValue == [name |-> None, type |-> None, bytes |-> NoBytes]
FormValues == Files \cup {StringValue, NullValue}

\* formData.get('file') of a PUT: one File, a string or null.
PutFormValues ==
  {[name |-> "a.mp3", type |-> "audio/mpeg", bytes |-> CoverBytes],
   StringValue, NullValue}

IsString(v) == v = StringValue
IsNull(v) == v = NullValue

\* The content-type header of a request, as the pieces of its text ('' when
\* the header is missing).
RequestContentTypes ==
  {<<Multipart, "; boundary=x">>, <<"application/json">>, <<>>}

\* String.prototype.includes
Includes(text, piece) == \E i \in 1..Len(text) : text[i] = piece

\* ------------------------------------------------------------------ text
Digits == <<"0", "1", "2", "3", "4", "5", "6", "7", "8", "9">>
DigitChars == {Digits[i] : i \in 1..10}
DigitVal(c) == (CHOOSE i \in 1..10 : Digits[i] = c) - 1

\* A JavaScript number: an integer of the model, or NaN.
Num(n) == [nan |-> FALSE, val |-> n]
NaN == [nan |-> TRUE, val |-> 0]
IsNaN(v) == v.nan

\* a >= b on numbers: false when either is NaN
Ge(a, b) == ~a.nan /\ ~b.nan /\ a.val >= b.val

\* String.prototype.replace(pattern, '') with a non-global pattern: the first
\* occurrence of pat is removed.
RECURSIVE RemoveFirst(_, _)
RemoveFirst(pat, s) ==
  IF Len(s) < Len(pat) THEN s
  ELSE IF SubSeq(s, 1, Len(pat)) = pat THEN SubSeq(s, Len(pat) + 1, Len(s))
  ELSE <<Head(s)>> \o RemoveFirst(pat, Tail(s))

\* String.prototype.split(sep) for a one-character separator.
RECURSIVE SplitAcc(_, _, _)
SplitAcc(s, sep, cur) ==
  IF s = <<>> THEN <<cur>>
  ELSE IF Head(s) = sep THEN <<cur>> \o SplitAcc(Tail(s), sep, <<>>)
  ELSE SplitAcc(Tail(s), sep, Append(cur, Head(s)))

Split(s, sep) == SplitAcc(s, sep, <<>>)

RECURSIVE SkipSpace(_)
SkipSpace(s) == IF s # <<>> /\ Head(s) = " " THEN SkipSpace(Tail(s)) ELSE s

RECURSIVE DigitPrefix(_, _)
DigitPrefix(s, acc) ==
  IF s # <<>> /\ Head(s) \in DigitChars
  THEN DigitPrefix(Tail(s), acc * 10 + DigitVal(Head(s)))
  ELSE acc

\* parseInt(s, 10): leading blanks are skipped, an optional sign is read, then
\* the longest run of digits; NaN when there is no digit.
ParseInt(s) ==
  LET t == SkipSpace(s)
      neg == t # <<>> /\ Head(t) = "-"
      u == IF t # <<>> /\ Head(t) \in {"-", "+"} THEN Tail(t) ELSE t
  IN IF u = <<>> \/ Head(u) \notin DigitChars THEN NaN
     ELSE IF neg THEN Num(0 - DigitPrefix(u, 0)) ELSE Num(DigitPrefix(u, 0))

\* ------------------------------------------------------------------ stores
\* Keys: `${id}.mp3`, `audio:${id}`, `project:${id}`, `${id}-cover.${ext}`
Mp3Key(id) == [prefix |-> "", id |-> id, suffix |-> ".mp3"]
AudioKey(id) == [prefix |-> "audio:", id |-> id, suffix |-> ""]
ProjectKey(id) == [prefix |-> "project:", id |-> id, suffix |-> ""]
CoverArtId(audioId) == [prefix |-> "", id |-> audioId, suffix |-> "-cover"]
CoverKey(coverArtId, ext) ==
  [prefix |-> coverArtId.prefix, id |-> coverArtId.id,
   suffix |-> <<coverArtId.suffix, ".">> \o ext]

Put(store, key, value) ==
  [k \in DOMAIN store \cup {key} |-> IF k = key THEN value ELSE store[k]]

Delete(store, key) == [k \in DOMAIN store \ {key} |-> store[k]]

Has(store, key) == key \in DOMAIN store

EmptyStore == [k \in {} |-> None]

\* KVNamespace.list({prefix}): the key names with the prefix, in the order of
\* their names.
RECURSIVE SortedKeys(_)
SortedKeys(S) ==
  IF S = {} THEN <<>>
  ELSE LET m == CHOOSE x \in S : \A y \in S : x.id <= y.id
       IN <<m>> \o SortedKeys(S \ {m})

List(kv, prefix) == SortedKeys({k \in DOMAIN kv : k.prefix = prefix})

\* R2Bucket.put(key, body, {httpMetadata: {contentType}})
R2Object(body, contentType, size) ==
  [body |-> body, contentType |-> contentType, size |-> size]

\* JSON.stringify / JSON.parse: a text that is not JSON makes parse throw.
JSONStringify(v) == [text |-> "json", value |-> v]
IsJSON(raw) == "text" \in DOMAIN raw /\ raw.text = "json"
JSONParse(raw) == raw.value

\* Hono's default error handler, for an exception a handler does not catch.
Text(status, text) == [status |-> status, kind |-> "text", text |-> text]
Json(status, value) == [status |-> status, kind |-> "json", json |-> value]
Stream(status, headers, body) ==
  [status |-> status, kind |-> "stream", headers |-> headers, body |-> body]
Empty(status, headers) ==
  [status |-> status, kind |-> "empty", headers |-> headers]
InternalServerError == Text(500, "Internal Server Error")
NoRequest == [op |-> "none"]
NoResp == [status |-> 0, kind |-> "none", to |-> 0, req |-> NoRequest]

\* The requests
UploadRequest(contentType, file) ==
  [op |-> "POST /audio", contentType |-> contentType, file |-> file]
GetRequest(id, rangeHeader) ==
  [op |-> "GET /audio/:id", id |-> id, range |-> rangeHeader]
MetaRequest(id) == [op |-> "GET /audio/:id/meta", id |-> id]
PutRequest(id, file) == [op |-> "PUT /audio/:id", id |-> id, file |-> file]
DeleteRequest(id) == [op |-> "DELETE /audio/:id", id |-> id]

\* ------------------------------------------------------------------ upload helpers
\* generateFileHash: the SHA-256 digest of the bytes, in hex. The digest is
\* a function of the bytes alone; no two byte contents of the model collide.
GenerateFileHash(bytes) == [alg |-> "sha256", of |-> bytes]

\* mm.parseBuffer: the tags of the file, or an exception.
NoPicture == <<>>
ParseBuffer(bytes) ==
  CASE bytes.tags = "cover" ->
         [throws |-> FALSE, title |-> "Song", artist |-> "Band",
          picture |-> <<[format |-> <<"image", "/", "png">>, data |-> 3]>>]
    [] bytes.tags = "plain" ->
         [throws |-> FALSE, title |-> None, artist |-> None,
          picture |-> NoPicture]
    [] OTHER ->
         [throws |-> TRUE, title |-> None, artist |-> None,
          picture |-> NoPicture]

\* coverArt.format.split('/')[1] || 'jpg'
CoverExt(format) ==
  LET parts == Split(format, "/")
  IN IF Len(parts) >= 2 /\ parts[2] # <<>> THEN parts[2] ELSE <<"jpg">>

NoCoverArt == [id |-> CoverArtId(0), format |-> <<>>, size |-> 0]
CoverArtInfo(audioId, picture) ==
  [id |-> CoverArtId(audioId), format |-> picture.format, size |-> picture.data]

\* The MP3Meta record of an upload.
MP3Meta(audioId, file, fileHash, metadata, coverArtInfo) ==
  [id |-> audioId,
   filename |-> file.name,
   contentType |-> file.type,
   size |-> file.bytes.len,
   fileHash |-> fileHash,
   metadata |-> [title |-> metadata.title, artist |-> metadata.artist],
   coverArt |-> coverArtInfo]

\* a || b on strings
OrElse(a, b) == IF a = None \/ a = "" THEN b ELSE a

\* The Project of an upload.
Project(projectId, meta) ==
  [id |-> projectId,
   name |-> <<OrElse(meta.metadata.title, "New Project"), " - ",
             OrElse(meta.metadata.artist, "Unknown Artist")>>,
   audioId |-> meta.id]

\* Variant of HashMatches: the comparison is inverted.
HashMismatches(meta, hash) == meta.fileHash # hash

\* meta.fileHash === hash
HashMatches(meta, hash) == meta.fileHash = hash

\* ------------------------------------------------------------------ state
VARIABLES
  audioFiles,  \* AUDIO_FILES: key -> object
  audioKV,     \* AUDIO_KV: key -> text
  coverFiles,  \* COVER_FILES: key -> object
  projectKV,   \* PROJECT_KV: key -> text
  usedIds,     \* the audio ids uuidv4 has handed out
  pc,          \* where each request handler stands
  ctx,         \* the local variables of each handler
  resp         \* the response the last step sent, to whom, and to what request

stores == <<audioFiles, audioKV, coverFiles, projectKV>>
vars == <<audioFiles, audioKV, coverFiles, projectKV, usedIds, pc, ctx, resp>>

IdleCtx == [req |-> NoRequest]

\* The stores outlive the worker and AUDIO_FILES is written from outside it
\* too: when the worker starts the bucket is empty, or holds one object under
\* a key `audio:<id>` (the text of a record), whose id uuidv4 will not hand
\* out again.
ForeignFile == [name |-> "b.mp3", type |-> "audio/mp3", bytes |-> PlainBytes]
ForeignRecord(id) ==
  R2Object(JSONStringify(MP3Meta(id, ForeignFile, GenerateFileHash(ForeignFile.bytes),
                                 ParseBuffer(ForeignFile.bytes), NoCoverArt)),
           None, 1)

Init ==
  /\ \/ /\ audioFiles = EmptyStore
        /\ usedIds = {}
     \/ \E id \in Ids :
          /\ audioFiles = Put(EmptyStore, AudioKey(id), ForeignRecord(id))
          /\ usedIds = {id}
  /\ audioKV = EmptyStore
  /\ coverFiles = EmptyStore
  /\ projectKV = EmptyStore
  /\ pc = [p \in Procs |-> "idle"]
  /\ ctx = [p \in Procs |-> IdleCtx]
  /\ resp = NoResp

\* The handler of p stands at `at`; the response of the last step, if any,
\* has been taken by its client.
At(p, at) == resp = NoResp /\ pc[p] = at

\* The client takes the response.
Receive ==
  /\ resp # NoResp
  /\ resp' = NoResp
  /\ UNCHANGED <<stores, usedIds, pc, ctx>>

\* The handler of p answers the request with r.
Respond(p, request, r) ==
  /\ pc' = [pc EXCEPT ![p] = "idle"]
  /\ ctx' = [ctx EXCEPT ![p] = IdleCtx]
  /\ resp' = r @@ [to |-> p, req |-> request]

\* The handler of p goes on at `at` with the locals c.
Goto(p, at, c) ==
  /\ pc' = [pc EXCEPT ![p] = at]
  /\ ctx' = [ctx EXCEPT ![p] = c]
  /\ resp' = NoResp

\* ------------------------------------------------------------------ POST /audio
DuplicateResponse(existingFile) ==
  Json(400, [message |-> "File already exists", duplicate |-> TRUE,
             existingFile |-> [id |-> existingFile.id,
                               filename |-> existingFile.filename,
                               metadata |-> existingFile.metadata]])

UploadedResponse(audioId) == Json(200, [message |-> "Uploaded", id |-> audioId])

\* The request is validated, the bytes are hashed and findFileByHash lists
\* the keys of AUDIO_KV.
UploadStart(p, contentType, file) ==
  /\ At(p, "idle")
  /\ IF ~Includes(contentType, Multipart)
     THEN Respond(p, UploadRequest(contentType, file),
                  Text(400, "Expected multipart/form-data"))
     ELSE IF IsNull(file) \/ IsString(file)
     THEN Respond(p, UploadRequest(contentType, file),
                  Text(400, "No Audio uploaded"))
     ELSE IF file.type # "audio/mpeg" /\ file.type # "audio/mp3"
     THEN Respond(p, UploadRequest(contentType, file),
                  Text(400, "Invalid file type"))
     ELSE Goto(p, "scan", [req |-> UploadRequest(contentType, file),
                           file |-> file,
                           fileHash |-> GenerateFileHash(file.bytes),
                           keys |-> List(audioKV, "audio:")])
  /\ UNCHANGED <<stores, usedIds>>

\* Variant of UploadScan: the project is saved before the duplicate is
\* reported.
UploadScanSavingProject(p) ==
  /\ At(p, "scan")
  /\ ctx[p].keys # <<>>
  /\ LET key == Head(ctx[p].keys)
         next == [ctx[p] EXCEPT !.keys = Tail(ctx[p].keys)]
     IN IF Has(audioKV, key) /\ IsJSON(audioKV[key])
           /\ HashMatches(JSONParse(audioKV[key]), ctx[p].fileHash)
        THEN LET i == CHOOSE i \in ProjIds \cup {0} :
                        i = 0 \/ ~Has(projectKV, ProjectKey(i))
             IN /\ projectKV' = Put(projectKV, ProjectKey(i),
                                    JSONStringify(Project(i, JSONParse(audioKV[key]))))
                /\ Respond(p, ctx[p].req,
                           DuplicateResponse(JSONParse(audioKV[key])))
        ELSE /\ Goto(p, "scan", next)
             /\ UNCHANGED projectKV
  /\ UNCHANGED <<audioFiles, audioKV, coverFiles, usedIds>>

\* One turn of the loop of findFileByHash: the next listed key is read.
UploadScan(p) ==
  /\ At(p, "scan")
  /\ ctx[p].keys # <<>>
  /\ LET key == Head(ctx[p].keys)
         next == [ctx[p] EXCEPT !.keys = Tail(ctx[p].keys)]
     IN IF ~Has(audioKV, key)
        THEN Goto(p, "scan", next)
        ELSE IF ~IsJSON(audioKV[key])
        THEN Respond(p, ctx[p].req, InternalServerError)
        ELSE IF HashMatches(JSONParse(audioKV[key]), ctx[p].fileHash)
        THEN Respond(p, ctx[p].req, DuplicateResponse(JSONParse(audioKV[key])))
        ELSE Goto(p, "scan", next)
  /\ UNCHANGED <<stores, usedIds>>

\* Variant of UploadExtract: a failed extraction is caught and the upload
\* goes on without tags.
UploadExtractLenient(p, audioId) ==
  /\ At(p, "scan")
  /\ ctx[p].keys = <<>>
  /\ audioId \notin usedIds
  /\ usedIds' = usedIds \cup {audioId}
  /\ Goto(p, "blob", [req |-> ctx[p].req, file |-> ctx[p].file,
                      fileHash |-> ctx[p].fileHash, audioId |-> audioId,
                      metadata |-> ParseBuffer(ctx[p].file.bytes),
                      coverArt |-> NoCoverArt])
  /\ UNCHANGED stores

\* findFileByHash returned null: the id is drawn, the tags are extracted, and
\* the cover, when there is one, is put.
UploadExtract(p, audioId) ==
  /\ At(p, "scan")
  /\ ctx[p].keys = <<>>
  /\ audioId \notin usedIds
  /\ usedIds' = usedIds \cup {audioId}
  /\ LET file == ctx[p].file
         metadata == ParseBuffer(file.bytes)
         c == [req |-> ctx[p].req, file |-> file, fileHash |-> ctx[p].fileHash,
               audioId |-> audioId, metadata |-> metadata]
     IN IF metadata.throws
        THEN /\ Respond(p, ctx[p].req, Text(500, "Error extracting metadata"))
             /\ UNCHANGED coverFiles
        ELSE IF Len(metadata.picture) > 0
        THEN LET coverArt == metadata.picture[1]
                 coverKey == CoverKey(CoverArtId(audioId), CoverExt(coverArt.format))
             IN /\ coverFiles' = Put(coverFiles, coverKey,
                                     R2Object(coverArt.data, coverArt.format, coverArt.data))
                /\ Goto(p, "blob",
                        c @@ [coverArt |-> CoverArtInfo(audioId, coverArt)])
        ELSE /\ UNCHANGED coverFiles
             /\ Goto(p, "blob", c @@ [coverArt |-> NoCoverArt])
  /\ UNCHANGED <<audioFiles, audioKV, projectKV>>

\* AUDIO_FILES.put(key, bytes)
UploadBlob(p) ==
  /\ At(p, "blob")
  /\ audioFiles' = Put(audioFiles, Mp3Key(ctx[p].audioId),
                       R2Object(ctx[p].file.bytes, ctx[p].file.type,
                                ctx[p].file.bytes.len))
  /\ Goto(p, "kv", ctx[p])
  /\ UNCHANGED <<audioKV, coverFiles, projectKV, usedIds>>

\* Variant of UploadKV: the hash is looked up again before the record is
\* written, and a record found ends the upload as a duplicate.
UploadKVRechecking(p) ==
  /\ At(p, "kv")
  /\ LET same == {k \in DOMAIN audioKV :
                   IsJSON(audioKV[k])
                   /\ HashMatches(JSONParse(audioKV[k]), ctx[p].fileHash)}
         meta == MP3Meta(ctx[p].audioId, ctx[p].file, ctx[p].fileHash,
                         ctx[p].metadata, ctx[p].coverArt)
     IN IF same # {}
        THEN /\ Respond(p, ctx[p].req,
                        DuplicateResponse(JSONParse(audioKV[CHOOSE k \in same : TRUE])))
             /\ UNCHANGED audioKV
        ELSE /\ audioKV' = Put(audioKV, AudioKey(ctx[p].audioId), JSONStringify(meta))
             /\ Goto(p, "project", ctx[p])
  /\ UNCHANGED <<audioFiles, coverFiles, projectKV, usedIds>>

\* AUDIO_KV.put(`audio:${audioId}`, JSON.stringify(meta))
UploadKV(p) ==
  /\ At(p, "kv")
  /\ LET meta == MP3Meta(ctx[p].audioId, ctx[p].file, ctx[p].fileHash,
                         ctx[p].metadata, ctx[p].coverArt)
     IN audioKV' = Put(audioKV, AudioKey(ctx[p].audioId), JSONStringify(meta))
  /\ Goto(p, "project", ctx[p])
  /\ UNCHANGED <<audioFiles, coverFiles, projectKV, usedIds>>

\* uuidv4() for the project: an id no project has.
NewProjectId == CHOOSE i \in ProjIds : ~Has(projectKV, ProjectKey(i))

\* saveProject, and the response
UploadProject(p) ==
  /\ At(p, "project")
  /\ LET meta == MP3Meta(ctx[p].audioId, ctx[p].file, ctx[p].fileHash,
                         ctx[p].metadata, ctx[p].coverArt)
         project == Project(NewProjectId, meta)
     IN projectKV' = Put(projectKV, ProjectKey(project.id), JSONStringify(project))
  /\ Respond(p, ctx[p].req, UploadedResponse(ctx[p].audioId))
  /\ UNCHANGED <<audioFiles, audioKV, coverFiles, usedIds>>

\* ------------------------------------------------------------------ GET /audio/:id
\* The decimal text of a number.
RECURSIVE Itoa(_)
Itoa(n) == IF n < 10 THEN <<Digits[n + 1]>>
           ELSE Itoa(n \div 10) \o <<Digits[(n % 10) + 1]>>

BytesEq == <<"b", "y", "t", "e", "s", "=">>

\* The texts a client puts on either side of the dash.
NumTexts == {Itoa(n) : n \in 0..MaxNum} \cup {<<>>, <<"x">>, <<"1", "x">>}

\* The Range headers of the requests: 'bytes=<start>-<end>', 'bytes=<start>',
\* the same without the unit, and the empty text.
RangeTexts ==
  {BytesEq \o a \o <<"-">> \o b : a \in NumTexts, b \in NumTexts}
    \cup {BytesEq \o a : a \in NumTexts}
    \cup {a \o <<"-">> \o b : a \in {Itoa(0)}, b \in {Itoa(0), <<>>}}

NoHeader == [present |-> FALSE, text |-> <<>>]
RangeHeaders == {NoHeader} \cup [present : {TRUE}, text : RangeTexts]

\* rangeHeader.replace(/bytes=/, '').split('-')
RangeParts(text) == Split(RemoveFirst(BytesEq, text), "-")

\* The parts of every header of the model, computed once.
RangePartsOf == [t \in RangeTexts |-> RangeParts(t)]

\* parseInt(rangeParts[0], 10)
RangeStart(parts) == ParseInt(parts[1])

\* rangeParts[1] ? parseInt(rangeParts[1], 10) : size - 1
RangeEnd(parts, size) ==
  IF Len(parts) >= 2 /\ parts[2] # <<>> THEN ParseInt(parts[2])
  ELSE Num(size - 1)

\* Variant of RangeInvalid: the bounds are compared with > for >=.
RangeInvalidStrict(start, end, size) ==
  IsNaN(start) \/ IsNaN(end) \/ Ge(start, Num(size + 1)) \/ Ge(end, Num(size + 1))

\* isNaN(start) || isNaN(end) || start >= size || end >= size
RangeInvalid(start, end, size) ==
  IsNaN(start) \/ IsNaN(end) \/ Ge(start, Num(size)) \/ Ge(end, Num(size))

\* Variant of ChunkSize: the last byte is not counted.
ChunkSizeExclusive(start, end) == end.val - start.val

\* end - start + 1
ChunkSize(start, end) == end.val - start.val + 1

DefaultHeaders(contentType) ==
  [contentType |-> contentType, acceptRanges |-> "bytes",
   cacheControl |-> "public, max-age=3600",
   contentLength |-> None, contentRange |-> <<>>]

\* `bytes */${size}` and `bytes ${start}-${end}/${size}`
UnsatisfiedRange(size) == <<"bytes */", ToString(size)>>
ContentRange(start, end, size) ==
  <<"bytes ", ToString(start), "-", ToString(end), "/", ToString(size)>>

\* The body of an object, or the slice of it a range get returns.
BodyOf(object, offset, length) ==
  [of |-> object.body, offset |-> offset, length |-> length]

\* AUDIO_FILES.get(key), then the Range header is parsed and checked; a
\* range that passes the checks goes on to the range get.
GetStart(p, id, rangeHeader) ==
  /\ At(p, "idle")
  /\ IF ~Has(audioFiles, Mp3Key(id))
     THEN Respond(p, GetRequest(id, rangeHeader), Text(404, "File not found"))
     ELSE LET object == audioFiles[Mp3Key(id)]
              size == object.size
              headers == DefaultHeaders(OrElse(object.contentType, "audio/mpeg"))
          IN IF ~rangeHeader.present \/ rangeHeader.text = <<>>
             THEN Respond(p, GetRequest(id, rangeHeader), Stream(200,
                    [headers EXCEPT !.contentLength = ToString(size)],
                    BodyOf(object, 0, size)))
             ELSE LET parts == RangePartsOf[rangeHeader.text]
                      start == RangeStart(parts)
                      end == RangeEnd(parts, size)
                  IN IF RangeInvalid(start, end, size)
                     THEN Respond(p, GetRequest(id, rangeHeader), Empty(416,
                            [headers EXCEPT !.contentRange = UnsatisfiedRange(size)]))
                     ELSE Goto(p, "range",
                            [req |-> GetRequest(id, rangeHeader),
                             id |-> id, start |-> start.val,
                             end |-> end.val, size |-> size, headers |-> headers,
                             offset |-> start.val,
                             length |-> ChunkSize(start, end)])
  /\ UNCHANGED <<stores, usedIds>>

\* What AUDIO_FILES.get(key, {range: {offset, length}}) can give: null for a
\* missing key, the slice for a length of at least one byte; the source does
\* not say what a length below one gives, so each outcome is possible.
RangeGetOutcomes(store, key, offset, length) ==
  IF ~Has(store, key) THEN {"null"}
  ELSE IF length >= 1 THEN {"object"}
  ELSE {"object", "null", "throws"}

\* The range get and the 206 response.
GetRange(p, outcome) ==
  /\ At(p, "range")
  /\ LET c == ctx[p]
         key == Mp3Key(c.id)
     IN /\ outcome \in RangeGetOutcomes(audioFiles, key, c.offset, c.length)
        /\ IF outcome = "null"
           THEN Respond(p, c.req, Text(416, "Range not available"))
           ELSE IF outcome = "throws"
           THEN Respond(p, c.req, InternalServerError)
           ELSE Respond(p, c.req, Stream(206,
                  [c.headers EXCEPT
                     !.contentLength = ToString(c.length),
                     !.contentRange = ContentRange(c.start, c.end, c.size)],
                  BodyOf(audioFiles[key], c.offset, c.length)))
  /\ UNCHANGED <<stores, usedIds>>

\* ------------------------------------------------------------------ GET /audio/:id/meta
GetMeta(p, id) ==
  /\ At(p, "idle")
  /\ IF ~Has(audioKV, AudioKey(id))
     THEN Respond(p, MetaRequest(id), Text(404, "Not found"))
     ELSE IF ~IsJSON(audioKV[AudioKey(id)])
     THEN Respond(p, MetaRequest(id), InternalServerError)
     ELSE Respond(p, MetaRequest(id), Json(200, JSONParse(audioKV[AudioKey(id)])))
  /\ UNCHANGED <<stores, usedIds>>

\* ------------------------------------------------------------------ PUT /audio/:id
\* The key under which the handler looks the existing record up, in
\* AUDIO_FILES.
PutLookupKey(id) == AudioKey(id)

\* {...existing, filename, contentType, size}
UpdatedMeta(existing, file) ==
  [existing EXCEPT !.filename = file.name,
                   !.contentType = file.type,
                   !.size = file.bytes.len]

\* AUDIO_FILES.get(`audio:${id}`), then the form data: a missing object is
\* answered 404, a missing file 400; file.stream() of a string throws while
\* the arguments of the first put are evaluated.
PutStart(p, id, file) ==
  /\ At(p, "idle")
  /\ IF ~Has(audioFiles, PutLookupKey(id))
     THEN Respond(p, PutRequest(id, file), Text(404, "Not found"))
     ELSE IF IsNull(file)
     THEN Respond(p, PutRequest(id, file), Text(400, "No file provided"))
     ELSE IF IsString(file)
     THEN Respond(p, PutRequest(id, file), InternalServerError)
     ELSE Goto(p, "putblob",
               [req |-> PutRequest(id, file), id |-> id, file |-> file,
                existing |-> audioFiles[PutLookupKey(id)]])
  /\ UNCHANGED <<stores, usedIds>>

\* AUDIO_FILES.put(`${id}.mp3`, file.stream(), ...)
PutBlob(p) ==
  /\ At(p, "putblob")
  /\ audioFiles' = Put(audioFiles, Mp3Key(ctx[p].id),
                       R2Object(ctx[p].file.bytes, ctx[p].file.type,
                                ctx[p].file.bytes.len))
  /\ Goto(p, "putrecord", ctx[p])
  /\ UNCHANGED <<audioKV, coverFiles, projectKV, usedIds>>

\* existing.text(), JSON.parse, AUDIO_FILES.put(`audio:${id}`, ...) and the
\* response; the text is that of the object the handler got at its start.
PutRecord(p) ==
  /\ At(p, "putrecord")
  /\ LET existingMetaRaw == ctx[p].existing.body
     IN IF ~IsJSON(existingMetaRaw)
        THEN /\ Respond(p, ctx[p].req, InternalServerError)
             /\ UNCHANGED audioFiles
        ELSE /\ audioFiles' =
                  Put(audioFiles, PutLookupKey(ctx[p].id),
                      R2Object(JSONStringify(UpdatedMeta(JSONParse(existingMetaRaw),
                                                         ctx[p].file)),
                               None, 1))
             /\ Respond(p, ctx[p].req,
                        Json(200, [message |-> "Updated", id |-> ctx[p].id]))
  /\ UNCHANGED <<audioKV, coverFiles, projectKV, usedIds>>

\* ------------------------------------------------------------------ DELETE /audio/:id
\* Promise.all of the two deletes: both are issued, they land in any order.
DeleteStart(p, id) ==
  /\ At(p, "idle")
  /\ Goto(p, "delete", [req |-> DeleteRequest(id), id |-> id,
                        pending |-> {"blob", "kv"}])
  /\ UNCHANGED <<stores, usedIds>>

\* One of the two deletes is done; the response follows the last one.
DeleteDone(p, which) ==
  IF ctx[p].pending = {which}
  THEN Respond(p, ctx[p].req, Json(200, [message |-> "Deleted", id |-> ctx[p].id]))
  ELSE Goto(p, "delete", [ctx[p] EXCEPT !.pending = @ \ {which}])

\* Variant of DeleteBlob: the blob is looked for under the key of the record.
DeleteBlobUnderAudioKey(p) ==
  /\ At(p, "delete")
  /\ "blob" \in ctx[p].pending
  /\ audioFiles' = Delete(audioFiles, AudioKey(ctx[p].id))
  /\ DeleteDone(p, "blob")
  /\ UNCHANGED <<audioKV, coverFiles, projectKV, usedIds>>

\* AUDIO_FILES.delete(`${id}.mp3`)
DeleteBlob(p) ==
  /\ At(p, "delete")
  /\ "blob" \in ctx[p].pending
  /\ audioFiles' = Delete(audioFiles, Mp3Key(ctx[p].id))
  /\ DeleteDone(p, "blob")
  /\ UNCHANGED <<audioKV, coverFiles, projectKV, usedIds>>

\* AUDIO_KV.delete(`audio:${id}`)
DeleteKV(p) ==
  /\ At(p, "delete")
  /\ "kv" \in ctx[p].pending
  /\ audioKV' = Delete(audioKV, AudioKey(ctx[p].id))
  /\ DeleteDone(p, "kv")
  /\ UNCHANGED <<audioFiles, coverFiles, projectKV, usedIds>>

\* ------------------------------------------------------------------ specifications
Step(p) ==
  \/ \E contentType \in RequestContentTypes, file \in FormValues :
       UploadStart(p, contentType, file)
  \/ UploadScan(p)
  \/ \E audioId \in Ids : UploadExtract(p, audioId)
  \/ UploadBlob(p)
  \/ UploadKV(p)
  \/ UploadProject(p)
  \/ \E id \in Ids, rangeHeader \in RangeHeaders : GetStart(p, id, rangeHeader)
  \/ \E outcome \in {"object", "null", "throws"} : GetRange(p, outcome)
  \/ \E id \in Ids : GetMeta(p, id)
  \/ \E id \in Ids, file \in PutFormValues : PutStart(p, id, file)
  \/ PutBlob(p)
  \/ PutRecord(p)
  \/ \E id \in Ids : DeleteStart(p, id)
  \/ DeleteBlob(p)
  \/ DeleteKV(p)

\* Requests are handled concurrently.
Next == Receive \/ \E p \in Procs : Step(p)

Spec == Init /\ [][Next]_vars

\* Requests are handled one after the other.
OthersIdle(p) == \A q \in Procs \ {p} : pc[q] = "idle"

NextSeq ==
  \/ Receive
  \/ \E p \in Procs :
    \/ /\ OthersIdle(p)
       /\ \E contentType \in RequestContentTypes, file \in FormValues :
            UploadStart(p, contentType, file)
    \/ UploadScan(p)
    \/ \E audioId \in Ids : UploadExtract(p, audioId)
    \/ UploadBlob(p)
    \/ UploadKV(p)
    \/ UploadProject(p)
    \/ /\ OthersIdle(p)
       /\ \E id \in Ids, rangeHeader \in RangeHeaders : GetStart(p, id, rangeHeader)
    \/ \E outcome \in {"object", "null", "throws"} : GetRange(p, outcome)
    \/ /\ OthersIdle(p)
       /\ \E id \in Ids : GetMeta(p, id)
    \/ /\ OthersIdle(p)
       /\ \E id \in Ids, file \in PutFormValues : PutStart(p, id, file)
    \/ PutBlob(p)
    \/ PutRecord(p)
    \/ /\ OthersIdle(p)
       /\ \E id \in Ids : DeleteStart(p, id)
    \/ DeleteBlob(p)
    \/ DeleteKV(p)

SpecSeq == Init /\ [][NextSeq]_vars

\* AUDIO_KV is shared with whatever else writes the namespace: a text that is
\* not JSON sits under one audio key when the worker starts, in AUDIO_KV and
\* possibly in AUDIO_FILES.
Corrupt == [text |-> "{\"id\":"]

InitCorrupt ==
  /\ \E id \in Ids :
       /\ audioKV = Put(EmptyStore, AudioKey(id), Corrupt)
       /\ usedIds = {id}
       /\ audioFiles \in {EmptyStore,
                          Put(EmptyStore, AudioKey(id), R2Object(Corrupt, None, 1))}
  /\ coverFiles = EmptyStore
  /\ projectKV = EmptyStore
  /\ pc = [p \in Procs |-> "idle"]
  /\ ctx = [p \in Procs |-> IdleCtx]
  /\ resp = NoResp

SpecCorrupt == InitCorrupt /\ [][NextSeq]_vars

\* ------------------------------------------------------------------ properties
\* The keys of the records of kv that carry the hash.
WithHash(kv, hash) ==
  {k \in DOMAIN kv : IsJSON(kv[k]) /\ JSONParse(kv[k]).fileHash = hash}

\* The keys of the projects that point at the audio id.
ProjectsOf(kv, audioId) ==
  {k \in DOMAIN kv : JSONParse(kv[k]).audioId = audioId}

\* Nothing is stored under the audio id.
NothingStored(audioId) ==
  /\ ~Has(audioFiles, Mp3Key(audioId))
  /\ ~Has(audioKV, AudioKey(audioId))
  /\ \A k \in DOMAIN coverFiles : k.id # audioId
  /\ ProjectsOf(projectKV, audioId) = {}

\* The header 'bytes=<a>-<b>'
RangeOf(a, b) == [present |-> TRUE, text |-> BytesEq \o a \o <<"-">> \o b]

\* The texts that parseInt reads no number from.
NotANumber == {<<>>, <<"x">>}

\* The handler of p stands at the range get of the request.
Fetching(p, request) == pc[p] = "range" /\ ctx[p].req = request

\* C1: with requests handled one after the other, an upload that completes
\* answers with the id its record is stored under, with the hash of its
\* bytes; and an upload of bytes whose hash a stored record carries finds
\* exactly one such record, never gets past the scan, and when it ends it
\* ends with the duplicate response (400, duplicate = true) naming the id of
\* that record, the store still holding exactly one record of the hash.
C1_SequentialDedup ==
  [][\A p \in Procs :
       /\ UploadProject(p) =>
            /\ resp'.status = 200
            /\ Has(audioKV', AudioKey(resp'.json.id))
            /\ JSONParse(audioKV'[AudioKey(resp'.json.id)]).id = resp'.json.id
            /\ JSONParse(audioKV'[AudioKey(resp'.json.id)]).fileHash
                 = GenerateFileHash(ctx[p].file.bytes)
       /\ ( /\ pc[p] = "scan"
            /\ WithHash(audioKV, GenerateFileHash(ctx[p].file.bytes)) # {} ) =>
            LET same == WithHash(audioKV, GenerateFileHash(ctx[p].file.bytes))
            IN /\ Cardinality(same) = 1
               /\ \E i \in 1..Len(ctx[p].keys) : ctx[p].keys[i] \in same
               /\ pc'[p] \in {"scan", "idle"}
               /\ pc'[p] = "idle" =>
                    /\ resp'.to = p
                    /\ resp'.status = 400
                    /\ resp'.kind = "json"
                    /\ resp'.json.duplicate = TRUE
                    /\ AudioKey(resp'.json.existingFile.id) \in same
               /\ WithHash(audioKV', GenerateFileHash(ctx[p].file.bytes)) = same
    ]_vars

\* The second of two uploads of the same bytes got the duplicate response
\* naming the one record of the hash.
C1_Witness ==
  /\ resp.req.op = "POST /audio"
  /\ resp.status = 400
  /\ resp.kind = "json"
  /\ resp.json.duplicate = TRUE
  /\ WithHash(audioKV, GenerateFileHash(resp.req.file.bytes))
       = {AudioKey(resp.json.existingFile.id)}

\* C2: the step of an upload that reports a duplicate leaves the four stores
\* as they are, and so does every step of an upload up to the end of its
\* scan: the scan comes before any write of the upload.
C2_DuplicateWritesNothing ==
  [][\A p \in Procs :
       /\ (UploadScan(p) /\ resp'.status = 400) => UNCHANGED stores
       /\ (pc'[p] = "scan" /\ ctx'[p] # ctx[p]) => UNCHANGED stores
       /\ (pc[p] = "scan" /\ resp'.to = p /\ resp'.status = 400) => UNCHANGED stores
    ]_vars

\* A duplicate was reported while the record, its blob and its project are
\* the only things the audio stores and the project store hold.
C2_Witness ==
  /\ resp.req.op = "POST /audio"
  /\ resp.status = 400
  /\ resp.kind = "json"
  /\ Cardinality(DOMAIN audioKV) = 1
  /\ Cardinality(DOMAIN audioFiles) = 1
  /\ Cardinality(DOMAIN projectKV) = 1

\* C3: a PUT /audio/X with a file, for an X whose record and blob are
\* stored, is answered 200, and when it is answered X.mp3 holds the new
\* bytes and the record of X carries the new filename, contentType and size.
C3_PutUpdatesRecord ==
  [][\A p \in Procs, id \in Ids, file \in Files :
       ( /\ resp = NoResp
         /\ resp' # NoResp
         /\ resp'.to = p
         /\ resp'.req = PutRequest(id, file)
         /\ Has(audioKV, AudioKey(id))
         /\ Has(audioFiles, Mp3Key(id)) ) =>
         /\ resp'.status = 200
         /\ audioFiles'[Mp3Key(id)].body = file.bytes
         /\ Has(audioKV', AudioKey(id))
         /\ UpdatedMeta(JSONParse(audioKV'[AudioKey(id)]), file)
              = JSONParse(audioKV'[AudioKey(id)])
    ]_vars

\* C4: a range 'bytes=<start>-<end>' with start > end, both below the size of
\* the object, is answered 416 with Content-Range 'bytes */size' and no
\* body, and no range get is issued for it.
C4_ReversedRangeUnsatisfiable ==
  \A id \in Ids, s \in 0..MaxNum, e \in 0..MaxNum :
    ( /\ Has(audioFiles, Mp3Key(id))
      /\ s > e
      /\ s < audioFiles[Mp3Key(id)].size ) =>
      LET request == GetRequest(id, RangeOf(Itoa(s), Itoa(e)))
      IN /\ \A p \in Procs : ~Fetching(p, request)
         /\ resp.req = request =>
              /\ resp.status = 416
              /\ resp.kind = "empty"
              /\ resp.headers.contentRange
                   = <<"bytes */", ToString(audioFiles[Mp3Key(id)].size)>>

\* C5: a range 'bytes=<start>-<end>' or 'bytes=<start>-' with
\* 0 <= start <= end < size (end = size - 1 when left out) makes the handler
\* ask the blob store for end - start + 1 bytes at offset start, and its
\* response is 206 with Content-Length end - start + 1, Content-Range
\* 'bytes start-end/size' and those bytes as the body.
C5_ValidRangePartialContent ==
  \A id \in Ids, s \in 0..MaxNum, e \in 0..MaxNum, given \in BOOLEAN :
    ( /\ Has(audioFiles, Mp3Key(id))
      /\ given \/ e = audioFiles[Mp3Key(id)].size - 1
      /\ s <= e
      /\ e < audioFiles[Mp3Key(id)].size ) =>
      LET request == GetRequest(id, RangeOf(Itoa(s), IF given THEN Itoa(e) ELSE <<>>))
          size == audioFiles[Mp3Key(id)].size
      IN /\ \A p \in Procs :
              Fetching(p, request) =>
                ctx[p].offset = s /\ ctx[p].length = e - s + 1
         /\ resp.req = request =>
              /\ resp.status = 206
              /\ resp.kind = "stream"
              /\ resp.headers.contentLength = ToString(e - s + 1)
              /\ resp.headers.contentRange
                   = <<"bytes ", ToString(s), "-", ToString(e), "/", ToString(size)>>
              /\ resp.body = [of |-> audioFiles[Mp3Key(id)].body,
                              offset |-> s, length |-> e - s + 1]

\* A 206 that spans a whole object of two bytes, for 'bytes=0-1'.
C5_Witness ==
  /\ resp.req.op = "GET /audio/:id"
  /\ resp.req.range = RangeOf(Itoa(0), Itoa(1))
  /\ resp.status = 206
  /\ resp.headers.contentLength = "2"
  /\ resp.headers.contentRange = <<"bytes ", "0", "-", "1", "/", "2">>

\* C6: a range whose start or end is no number, or is not below the size of
\* the object, is answered 416 with Content-Range 'bytes */size' and no
\* body, and no range get is issued for it.
C6_InvalidRangeUnsatisfiable ==
  \A id \in Ids, a \in NumTexts, b \in NumTexts :
    ( /\ Has(audioFiles, Mp3Key(id))
      /\ \/ a \in NotANumber
         \/ b = <<"x">>
         \/ \E n \in 0..MaxNum :
              n >= audioFiles[Mp3Key(id)].size /\ (a = Itoa(n) \/ b = Itoa(n)) ) =>
      LET request == GetRequest(id, RangeOf(a, b))
      IN /\ \A p \in Procs : ~Fetching(p, request)
         /\ resp.req = request =>
              /\ resp.status = 416
              /\ resp.kind = "empty"
              /\ resp.headers.contentRange
                   = <<"bytes */", ToString(audioFiles[Mp3Key(id)].size)>>

\* A 416 without a body for 'bytes=0-2' on an object of two bytes.
C6_Witness ==
  /\ resp.req.op = "GET /audio/:id"
  /\ resp.req.range = RangeOf(Itoa(0), Itoa(2))
  /\ resp.status = 416
  /\ resp.kind = "empty"
  /\ resp.headers.contentRange = <<"bytes */", "2">>

\* C7: a turn of the scan of findFileByHash either goes on to the next key or
\* ends with the duplicate response for the record it read: a record that
\* cannot be read never makes the scan end with an error.
C7_ScanNeverFails ==
  [][\A p \in Procs :
       UploadScan(p) =>
         \/ pc'[p] = "scan"
         \/ /\ resp'.status = 400
            /\ resp'.json.existingFile.id = Head(ctx[p].keys).id
    ]_vars

\* C8: when the extraction of the tags throws, the upload ends with 500, the
\* four stores are left as they are, and nothing is stored under the id of the
\* upload.
C8_FailedExtractionPersistsNothing ==
  [][\A p \in Procs, audioId \in Ids :
       (UploadExtract(p, audioId) /\ ctx[p].file.bytes = BadBytes) =>
         /\ pc'[p] = "idle"
         /\ resp'.to = p
         /\ resp'.status = 500
         /\ UNCHANGED stores
         /\ NothingStored(audioId)'
    ]_vars

\* An upload of the bytes the parser rejects ended with the 500 of a failed
\* extraction.
C8_Witness ==
  /\ resp.req.op = "POST /audio"
  /\ resp.req.file.bytes = BadBytes
  /\ resp.status = 500
  /\ resp.text = "Error extracting metadata"

\* C9: an upload that is past its scan does not look at the hash again: it
\* writes its record under its own id, whatever records the store holds, and
\* ends with the Uploaded response for that id, its project saved.
C9_NoCheckAfterScan ==
  [][\A p \in Procs :
       /\ UploadKV(p) =>
            /\ Has(audioKV', AudioKey(ctx[p].audioId))
            /\ JSONParse(audioKV'[AudioKey(ctx[p].audioId)]).fileHash = ctx[p].fileHash
            /\ \A k \in DOMAIN audioKV : Has(audioKV', k) /\ audioKV'[k] = audioKV[k]
       /\ (pc[p] \in {"blob", "kv", "project"} /\ pc'[p] = "idle") =>
            /\ resp'.to = p
            /\ resp'.status = 200
            /\ resp'.json = [message |-> "Uploaded", id |-> ctx[p].audioId]
            /\ ProjectsOf(projectKV', ctx[p].audioId) # {}
    ]_vars

\* Two records with different ids carry the same hash, and each has its
\* project.
C9_Witness ==
  \E a \in Ids, b \in Ids :
    /\ a # b
    /\ Has(audioKV, AudioKey(a))
    /\ Has(audioKV, AudioKey(b))
    /\ JSONParse(audioKV[AudioKey(a)]).fileHash = JSONParse(audioKV[AudioKey(b)]).fileHash
    /\ ProjectsOf(projectKV, a) # {}
    /\ ProjectsOf(projectKV, b) # {}
    /\ ProjectsOf(projectKV, a) # ProjectsOf(projectKV, b)

\* C10: the steps of DELETE /audio/:id remove the blob id.mp3 and the record
\* audio:id, both are gone when the handler answers, and no step of it touches
\* the project store.
C10_DeleteLeavesProjects ==
  [][\A p \in Procs :
       /\ DeleteBlob(p) =>
            ~Has(audioFiles', Mp3Key(ctx[p].id)) /\ UNCHANGED <<audioKV, projectKV>>
       /\ DeleteKV(p) =>
            ~Has(audioKV', AudioKey(ctx[p].id)) /\ UNCHANGED <<audioFiles, projectKV>>
       /\ (pc[p] = "delete" /\ pc'[p] = "idle") =>
            /\ resp'.to = p
            /\ resp'.status = 200
            /\ resp'.json = [message |-> "Deleted", id |-> ctx[p].id]
            /\ ~Has(audioFiles', Mp3Key(ctx[p].id))
            /\ ~Has(audioKV', AudioKey(ctx[p].id))
       /\ (pc[p] = "idle" /\ pc'[p] = "delete") => UNCHANGED stores
    ]_vars

\* A delete was answered, and a project still points at the deleted id.
C10_Witness ==
  \E id \in Ids :
    /\ resp.req = DeleteRequest(id)
    /\ resp.status = 200
    /\ ~Has(audioKV, AudioKey(id))
    /\ ~Has(audioFiles, Mp3Key(id))
    /\ ProjectsOf(projectKV, id) # {}

====
